---- MODULE Spec2Model ----
(***************************************************************************)
(* State-machine model of the operator-session guard (middleware/auth.js), *)
(* the auth and capture routes, and the encrypted capture store            *)
(* (models/SessionData.js).                                                *)
(*                                                                         *)
(* Time is counted in ticks of 15 minutes.  Requests are handled           *)
(* concurrently: every await / callback boundary of a handler is a         *)
(* separate step, and the synchronous code between two boundaries is one   *)
(* atomic step (Node's run-to-completion).  A database statement takes     *)
(* effect in the step that issues it; its callback is the next step.       *)
(***************************************************************************)
EXTENDS Integers, Sequences, FiniteSets, TLC

\* ---------------------------------------------------------------- bounds
MaxReq == 2       \* requests in flight at once
MaxSid == 4       \* session identifiers ever generated
MaxTicks == 4     \* ticks of the clock (the run ends at midnight UTC)
MaxRecs == 1      \* rows ever inserted into captured_data
MaxTamper == 1    \* at-rest corruptions of a stored envelope
MaxLogs == 1      \* rows ever inserted into message_logs

\* ------------------------------------------------------ program constants
MAX_IDLE == 2            \* 30 * 60 * 1000 ms
ROTATE_INTERVAL == 1     \* 15 * 60 * 1000 ms
CAPTURE_TTL == 2         \* 30 * 60 * 1000 ms
DAY == 96                \* ticks per calendar day of the date part of a timestamp
SEP_ISO == 84            \* 'T', 11th character of Date.toISOString()
SEP_SQL == 32            \* ' ', 11th character of SQLite datetime('now')
GCM_MOD == 5             \* size of the modelled ciphertext / tag alphabet

MO_USERS == {"demo.admin", "demo.operator"}
\* the usernames login requests present
Usernames == {"demo.operator", "unknown"}
AllowedSessions(u) == IF u = "demo.admin" THEN 5 ELSE 3

SIDs == 1..MaxSid
Reqs == 1..MaxReq
Phones == {1, 2}
Codes == {3, 4}

\* --------------------------------------------------- timestamps as text
\* Date.toISOString(): "YYYY-MM-DDTHH:MM:SS.sssZ"
ISOString(t) == <<t \div DAY, SEP_ISO, t % DAY>>
\* SQLite datetime('now'): "YYYY-MM-DD HH:MM:SS"
SqlNow(t) == <<t \div DAY, SEP_SQL, t % DAY>>
\* the instant a stored timestamp text denotes
Instant(txt) == txt[1] * DAY + txt[3]
\* SQLite's comparison of two TEXT values: bytewise, left to right
TextLess(a, b) ==
    \/ a[1] < b[1]
    \/ a[1] = b[1] /\ a[2] < b[2]
    \/ a[1] = b[1] /\ a[2] = b[2] /\ a[3] < b[3]

\* ------------------------------------------------------------ AES-256-GCM
\* A keystream and a tag that depend on the nonce; the key is process-wide.
KeyStream(iv) == (3 * iv + 2) % GCM_MOD
Mac(iv, ct) == (2 * ct + iv + 1) % GCM_MOD
DecryptFailure == GCM_MOD

encrypt(text, iv) ==
    LET ct == (text + KeyStream(iv)) % GCM_MOD
    IN  [iv |-> iv, tag |-> Mac(iv, ct), ct |-> ct]

decrypt(env) ==
    IF env.tag # Mac(env.iv, env.ct)
    THEN DecryptFailure
    ELSE (env.ct + GCM_MOD - KeyStream(env.iv)) % GCM_MOD

\* ------------------------------------------------- SessionData statements
\* a faulty createSession that stores the creation time as the expiry
createSessionWithoutTTL(sid, user, t) ==
    [session_id |-> sid, mo_username |-> user, created_at |-> SqlNow(t),
     expires_at |-> ISOString(t)]

\* INSERT INTO capture_sessions (session_id, mo_username, expires_at);
\* created_at is the column's DEFAULT CURRENT_TIMESTAMP
createSession(sid, user, t) ==
    [session_id |-> sid, mo_username |-> user, created_at |-> SqlNow(t),
     expires_at |-> ISOString(t + CAPTURE_TTL)]

\* INSERT INTO captured_data (session_id, encrypted_phone, encrypted_safety_code)
captureData(id, sid, phone, code, iv) ==
    [id |-> id, session_id |-> sid,
     encrypted_phone |-> encrypt(phone, iv),
     encrypted_safety_code |-> encrypt(code, iv + 1),
     status |-> "new"]

\* a faulty SELECT that joins on the identity alone, not on the session id
SelectByIdentity(data, sessions, sid, user, t) ==
    {row \in data :
        /\ row.status = "new"
        /\ \E cs \in sessions :
              /\ cs.session_id = row.session_id
              /\ cs.mo_username = user
              /\ TextLess(SqlNow(t), cs.expires_at)}

\* the SELECT ... JOIN of getSessionData
SelectSessionData(data, sessions, sid, user, t) ==
    {row \in data :
        /\ row.session_id = sid
        /\ row.status = "new"
        /\ \E cs \in sessions :
              /\ cs.session_id = row.session_id
              /\ cs.mo_username = user
              /\ TextLess(SqlNow(t), cs.expires_at)}

\* rows.map(row => ({id, phoneNumber: decrypt(..), safetyCode: decrypt(..)}))
DecryptRows(rows) ==
    {[id |-> row.id,
      phoneNumber |-> decrypt(row.encrypted_phone),
      safetyCode |-> decrypt(row.encrypted_safety_code)] : row \in rows}

\* decipher.final() throws on a tag mismatch
DecryptThrows(rows) ==
    \E row \in rows :
        \/ decrypt(row.encrypted_phone) = DecryptFailure
        \/ decrypt(row.encrypted_safety_code) = DecryptFailure

\* SELECT session_id FROM capture_sessions WHERE expires_at < datetime('now')
ExpiredSessionIds(sessions, t) ==
    {cs.session_id : cs \in {x \in sessions : TextLess(x.expires_at, SqlNow(t))}}

\* first DELETE of cleanupExpired
SweepData(data, sessions, t) ==
    {row \in data : row.session_id \notin ExpiredSessionIds(sessions, t)}

\* second DELETE of cleanupExpired
SweepSessions(sessions, t) ==
    {cs \in sessions : ~TextLess(cs.expires_at, SqlNow(t))}

\* a faulty purge that deletes the session's records one statement per row
PurgeOneRecord(data, sid) ==
    {row \in data :
        \/ row.session_id # sid
        \/ \E other \in data : other.session_id = sid /\ other.id < row.id}

\* DELETE FROM captured_data WHERE session_id = ?
PurgeData(data, sid) == {row \in data : row.session_id # sid}

\* DELETE FROM capture_sessions WHERE session_id = ?
PurgeSession(sessions, sid) == {cs \in sessions : cs.session_id # sid}

\* UPDATE captured_data SET status = 'sent'
\*   WHERE session_id = ? AND encrypted_phone = ?   (the phone encrypted anew)
markAsSent(data, sid, phone, iv) ==
    {IF row.session_id = sid /\ row.encrypted_phone = encrypt(phone, iv)
     THEN [row EXCEPT !.status = "sent"]
     ELSE row : row \in data}

\* INSERT INTO message_logs (session_id, mo_username, encrypted_phone, .., status)
logMessage(id, sid, user, phone, iv, status) ==
    [id |-> id, session_id |-> sid, mo_username |-> user,
     encrypted_phone |-> encrypt(phone, iv), status |-> status]

\* ------------------------------------------------------------ credentials
\* MO_USERS.find(...) then bcrypt.compare; pwOk is the outcome of the hash
\* comparison for a registered user.  The result is the user or "" (null).
validateMOCredentials(username, pwOk) ==
    IF username \notin MO_USERS THEN ""
    ELSE IF pwOk THEN username ELSE ""

\* the bcrypt.compare calls one validateMOCredentials(username, ..) makes, in
\* order: the early return for an unregistered username comes before the hash
HashComparisons(username) ==
    IF username \notin MO_USERS THEN <<>> ELSE <<"bcrypt.compare">>

\* ------------------------------------------------------------------ state
VARIABLES
    now,              \* Date.now(), in ticks
    store,            \* express-session store: session id -> saved session
    nextSid,          \* next identifier the id generator hands out
    activeSessions,   \* the activeSessions Map of auth.js, as a set of entries
    capture_sessions, \* table capture_sessions
    captured_data,    \* table captured_data
    nextId,           \* AUTOINCREMENT of captured_data
    nextIv,           \* next nonce of crypto.randomBytes(16): never repeated
    req,              \* the requests in flight, one record per slot
    sweep,            \* position of the cleanupExpired timer callback
    crashed,          \* an exception escaped a callback: the process is gone
    tampers,          \* at-rest corruptions done so far
    response,         \* the response the last step sent, if it sent one
    expiredIds,       \* identifiers the guard has idle-expired
    rotatedIds,       \* identifiers the guard has rotated away
    message_logs,     \* table message_logs
    audit             \* the actions the last step wrote to the audit log

vars == <<now, store, nextSid, activeSessions, capture_sessions, captured_data,
          nextId, nextIv, req, sweep, crashed, tampers, response, expiredIds,
          rotatedIds, message_logs, audit>>

\* a session without claims: what the store yields for an unknown id and
\* what store.generate() creates
NoSession ==
    [moUser |-> "", demoSessionId |-> 0, lastActivity |-> 0, lastRegenerated |-> 0]

FreeSlot ==
    [pc |-> "free", route |-> "", cookie |-> 0, sessionID |-> 0,
     session |-> NoSession, modified |-> FALSE, late |-> "", user |-> "",
     recipients |-> {}, results |-> {}]

NoResponse == [slot |-> 0, code |-> "", captures |-> {}]

GuardedRoutes == {"status", "capture", "current", "logout", "send"}
Routes == GuardedRoutes \cup {"login"}

Init ==
    /\ now = DAY - MaxTicks
    /\ store = [s \in SIDs |-> NoSession]
    /\ nextSid = 1
    /\ activeSessions = {}
    /\ capture_sessions = {}
    /\ captured_data = {}
    /\ nextId = 1
    /\ nextIv = 0
    /\ req = [r \in Reqs |-> FreeSlot]
    /\ sweep = "idle"
    /\ crashed = FALSE
    /\ tampers = 0
    /\ response = NoResponse
    /\ expiredIds = {}
    /\ rotatedIds = {}
    /\ message_logs = {}
    /\ audit = {}

\* ------------------------------------------------- express-session store
\* A saved session stays in the store until it is destroyed; the store's own
\* expiry of rows by cookie age is left out, the guard's idle check decides.
\* store.get(sid): the saved session, or none for an unknown identifier
StoreGet(st, sid) == IF sid \in SIDs THEN st[sid] ELSE NoSession
\* store.destroy(sid)
StoreDestroy(st, sid) == IF sid \in SIDs THEN [st EXCEPT ![sid] = NoSession] ELSE st
\* store.set(sid, session)
StoreSet(st, sid, sess) == [st EXCEPT ![sid] = sess]
\* the res.end() hook of express-session: a session that still exists and
\* differs from what was loaded (or lives under a new id) is written back
EndSave(st, q) ==
    IF q.sessionID \in SIDs /\ (q.modified \/ q.sessionID # q.cookie)
    THEN StoreSet(st, q.sessionID, q.session)
    ELSE st

\* res.json(...) / res.status(..).json(...): the request is over; the finish
\* hook of the audit middleware logs REQUEST
Respond(r, code, captures) ==
    /\ req' = [req EXCEPT ![r] = FreeSlot]
    /\ response' = [slot |-> r, code |-> code, captures |-> captures]
    /\ audit' = {"REQUEST"}

\* req.auditLog(action, ..) followed by the response
RespondLogged(r, code, captures, action) ==
    /\ req' = [req EXCEPT ![r] = FreeSlot]
    /\ response' = [slot |-> r, code |-> code, captures |-> captures]
    /\ audit' = {action, "REQUEST"}

\* ---------------------------------------------------------------- actions
\* A request arrives with a cookie; the session middleware loads its session.
\* Identifiers are unguessable: only issued ones are presented.
Arrive(r, route, cookie) ==
    /\ ~crashed
    /\ response' = NoResponse /\ audit' = {}
    /\ route \in Routes
    /\ req[r].pc = "free"
    /\ \A r2 \in Reqs : r2 < r => req[r2].pc # "free"
    /\ cookie < nextSid
    /\ req' = [req EXCEPT ![r] =
                 [FreeSlot EXCEPT
                    !.pc = "loaded", !.route = route, !.cookie = cookie,
                    !.sessionID = IF StoreGet(store, cookie) # NoSession
                                  THEN cookie ELSE 0,
                    !.session = StoreGet(store, cookie),
                    !.late = IF cookie \in expiredIds THEN "expired"
                             ELSE IF cookie \in rotatedIds THEN "rotated"
                             ELSE ""]]
    /\ UNCHANGED <<message_logs, now, store, nextSid, activeSessions, capture_sessions,
                   captured_data, nextId, nextIv, sweep, crashed, tampers,
                   expiredIds, rotatedIds>>

\* a faulty login that tells an unregistered username from a wrong password
LoginAuthNamingCause(r, username, pwOk) ==
    /\ ~crashed
    /\ req[r].pc = "loaded" /\ req[r].route = "login"
    /\ LET user == validateMOCredentials(username, pwOk)
       IN  IF user = ""
           THEN /\ RespondLogged(r, IF username \in MO_USERS
                                    THEN "AUTH_FAILED"
                                    ELSE "USER_NOT_FOUND", {}, "LOGIN_FAILED")
                /\ store' = store
           ELSE /\ req' = [req EXCEPT ![r].pc = "regen", ![r].user = user]
                /\ response' = NoResponse /\ audit' = {}
                /\ store' = StoreDestroy(store, req[r].sessionID)
    /\ UNCHANGED <<message_logs, now, nextSid, activeSessions,
                   capture_sessions, captured_data, nextId, nextIv, sweep,
                   crashed, tampers, expiredIds, rotatedIds>>

\* POST /login up to req.session.regenerate(...)
LoginAuth(r, username, pwOk) ==
    /\ ~crashed
    /\ req[r].pc = "loaded" /\ req[r].route = "login"
    /\ LET user == validateMOCredentials(username, pwOk)
       IN  IF user = ""
           THEN /\ RespondLogged(r, "AUTH_FAILED", {}, "LOGIN_FAILED")
                /\ store' = store
           ELSE /\ req' = [req EXCEPT ![r].pc = "regen", ![r].user = user]
                /\ response' = NoResponse /\ audit' = {}
                /\ store' = StoreDestroy(store, req[r].sessionID)
    /\ UNCHANGED <<message_logs, now, nextSid, activeSessions, capture_sessions,
                   captured_data, nextId, nextIv, sweep, crashed, tampers,
                   expiredIds, rotatedIds>>

\* a faulty login that keeps the identifier the request came with
LoginCreateKeepingId(r, maxSid) ==
    /\ ~crashed
    /\ response' = NoResponse /\ audit' = {}
    /\ req[r].pc = "regen" /\ req[r].route = "login"
    /\ nextSid <= maxSid
    /\ LET sid == IF req[r].cookie \in SIDs THEN req[r].cookie ELSE nextSid
       IN  /\ req' = [req EXCEPT ![r].pc = "created", ![r].sessionID = sid,
                                 ![r].session = NoSession]
           /\ capture_sessions' =
                 capture_sessions \cup {createSession(sid, req[r].user, now)}
    /\ nextSid' = nextSid + 1
    /\ UNCHANGED <<message_logs, now, store, activeSessions, captured_data,
                   nextId, nextIv, sweep, crashed, tampers, expiredIds,
                   rotatedIds>>

\* the regenerate callback of POST /login: a new id, then createSession
LoginCreate(r, maxSid) ==
    /\ ~crashed
    /\ response' = NoResponse /\ audit' = {}
    /\ req[r].pc = "regen" /\ req[r].route = "login"
    /\ nextSid <= maxSid
    /\ req' = [req EXCEPT ![r].pc = "created", ![r].sessionID = nextSid,
                          ![r].session = NoSession]
    /\ nextSid' = nextSid + 1
    /\ capture_sessions' =
          capture_sessions \cup {createSession(nextSid, req[r].user, now)}
    /\ UNCHANGED <<message_logs, now, store, activeSessions, captured_data, nextId, nextIv,
                   sweep, crashed, tampers, expiredIds, rotatedIds>>

\* POST /login after createSession resolved: claims set, response, save
LoginFinish(r) ==
    /\ ~crashed
    /\ req[r].pc = "created"
    /\ LET sess == [moUser |-> req[r].user,
                    demoSessionId |-> req[r].sessionID,
                    lastActivity |-> now, lastRegenerated |-> now]
       IN  /\ RespondLogged(r, "LOGIN_OK", {}, "LOGIN_SUCCESS")
           /\ store' = StoreSet(store, req[r].sessionID, sess)
    /\ UNCHANGED <<message_logs, now, nextSid, activeSessions, capture_sessions,
                   captured_data, nextId, nextIv, sweep, crashed, tampers,
                   expiredIds, rotatedIds>>

\* a faulty guard that lets every request through to its handler
requireAuthWithoutTest(r) ==
    /\ ~crashed
    /\ req[r].pc = "loaded" /\ req[r].route \in GuardedRoutes
    /\ req' = [req EXCEPT ![r].pc = "handler"]
    /\ response' = NoResponse /\ audit' = {}
    /\ UNCHANGED <<message_logs, now, store, nextSid, activeSessions,
                   capture_sessions, captured_data, nextId, nextIv, sweep,
                   crashed, tampers, expiredIds, rotatedIds>>

\* requireAuth, up to next() or to req.session.regenerate(...)
requireAuth(r) ==
    /\ ~crashed
    /\ req[r].pc = "loaded" /\ req[r].route \in GuardedRoutes
    /\ LET q == req[r]
           sess == q.session
       IN  IF sess.moUser = ""
           THEN /\ Respond(r, "AUTH_REQUIRED", {})
                /\ UNCHANGED <<store, expiredIds>>
           ELSE IF sess.lastActivity # 0 /\ now - sess.lastActivity > MAX_IDLE
           THEN \* req.session.destroy(); 401 SESSION_EXPIRED
                /\ store' = StoreDestroy(store, q.sessionID)
                /\ Respond(r, "SESSION_EXPIRED", {})
                /\ expiredIds' = expiredIds \cup {q.sessionID}
           ELSE LET touched == [sess EXCEPT !.lastActivity = now]
                    dirty == sess.lastActivity # now
                IN  IF sess.lastRegenerated = 0
                       \/ now - sess.lastRegenerated > ROTATE_INTERVAL
                    THEN /\ store' = StoreDestroy(store, q.sessionID)
                         /\ req' = [req EXCEPT ![r].pc = "regen",
                                               ![r].session = touched,
                                               ![r].modified = dirty]
                         /\ response' = NoResponse /\ audit' = {}
                         /\ expiredIds' = expiredIds
                    ELSE /\ store' = store
                         /\ req' = [req EXCEPT ![r].pc = "handler",
                                               ![r].session = touched,
                                               ![r].modified = dirty]
                         /\ response' = NoResponse /\ audit' = {}
                         /\ expiredIds' = expiredIds
    /\ UNCHANGED <<message_logs, now, nextSid, activeSessions, capture_sessions,
                   captured_data, nextId, nextIv, sweep, crashed, tampers,
                   rotatedIds>>

\* requireAuth on a rotation-due session whose req.session.regenerate fails:
\* the store could not destroy the old row, which therefore stays
RegenerateFails(r) ==
    /\ ~crashed
    /\ response' = NoResponse /\ audit' = {}
    /\ req[r].pc = "loaded" /\ req[r].route \in GuardedRoutes
    /\ LET sess == req[r].session
       IN  /\ sess.moUser # ""
           /\ ~(sess.lastActivity # 0 /\ now - sess.lastActivity > MAX_IDLE)
           /\ \/ sess.lastRegenerated = 0
              \/ now - sess.lastRegenerated > ROTATE_INTERVAL
    /\ req' = [req EXCEPT ![r].pc = "regenfailed", ![r].sessionID = 0,
                          ![r].session = NoSession]
    /\ UNCHANGED <<message_logs, now, store, nextSid, activeSessions,
                   capture_sessions, captured_data, nextId, nextIv, sweep,
                   crashed, tampers, expiredIds, rotatedIds>>

\* the regenerate callback with err: next(err), answered by the error
\* handler of app.js; the blank session regenerate left is not saved
RotationFailed(r) ==
    /\ ~crashed
    /\ req[r].pc = "regenfailed"
    /\ Respond(r, "SERVER_ERROR", {})
    /\ UNCHANGED <<message_logs, now, store, nextSid, activeSessions,
                   capture_sessions, captured_data, nextId, nextIv, sweep,
                   crashed, tampers, expiredIds, rotatedIds>>

\* a faulty rotation that does not copy the old session's claims
RegeneratedWithoutClaims(r, maxSid) ==
    /\ ~crashed
    /\ response' = NoResponse /\ audit' = {}
    /\ req[r].pc = "regen" /\ req[r].route \in GuardedRoutes
    /\ nextSid <= maxSid
    /\ req' = [req EXCEPT ![r].pc = "handler", ![r].sessionID = nextSid,
                          ![r].session =
                              [NoSession EXCEPT !.lastRegenerated = now],
                          ![r].modified = TRUE]
    /\ nextSid' = nextSid + 1
    /\ rotatedIds' = rotatedIds \cup {req[r].sessionID}
    /\ UNCHANGED <<message_logs, now, store, activeSessions, capture_sessions,
                   captured_data, nextId, nextIv, sweep, crashed, tampers,
                   expiredIds>>

\* the regenerate callback of requireAuth: new id, claims copied over
Regenerated(r, maxSid) ==
    /\ ~crashed
    /\ response' = NoResponse /\ audit' = {}
    /\ req[r].pc = "regen" /\ req[r].route \in GuardedRoutes
    /\ nextSid <= maxSid
    /\ req' = [req EXCEPT ![r].pc = "handler", ![r].sessionID = nextSid,
                          ![r].session.lastRegenerated = now,
                          ![r].modified = TRUE]
    /\ nextSid' = nextSid + 1
    /\ rotatedIds' = rotatedIds \cup {req[r].sessionID}
    /\ UNCHANGED <<message_logs, now, store, activeSessions, capture_sessions,
                   captured_data, nextId, nextIv, sweep, crashed, tampers,
                   expiredIds>>

\* GET /status
Status(r) ==
    /\ ~crashed
    /\ req[r].pc = "handler" /\ req[r].route = "status"
    /\ Respond(r, "STATUS_OK", {})
    /\ store' = EndSave(store, req[r])
    /\ UNCHANGED <<message_logs, now, nextSid, activeSessions, capture_sessions,
                   captured_data, nextId, nextIv, sweep, crashed, tampers,
                   expiredIds, rotatedIds>>

\* POST /capture: captureData, then the success response
CaptureUpTo(r, phone, code, maxRecs) ==
    /\ ~crashed
    /\ req[r].pc = "handler" /\ req[r].route = "capture"
    /\ nextId <= maxRecs
    /\ captured_data' = captured_data \cup
          {captureData(nextId, req[r].session.demoSessionId, phone, code, nextIv)}
    /\ nextId' = nextId + 1
    /\ nextIv' = nextIv + 2
    /\ RespondLogged(r, "CAPTURE_OK", {}, "DATA_CAPTURED")
    /\ store' = EndSave(store, req[r])
    /\ UNCHANGED <<message_logs, now, nextSid, activeSessions, capture_sessions, sweep,
                   crashed, tampers, expiredIds, rotatedIds>>

Capture(r, phone, code) == CaptureUpTo(r, phone, code, MaxRecs)

\* GET /capture/current: getSessionData, then the response.  A decrypt that
\* throws does so inside the db.all callback, outside any try or promise
\* executor: nothing rejects, the exception is uncaught.
Current(r) ==
    /\ ~crashed
    /\ req[r].pc = "handler" /\ req[r].route = "current"
    /\ LET rows == SelectSessionData(captured_data, capture_sessions,
                                     req[r].session.demoSessionId,
                                     req[r].session.moUser, now)
       IN  IF DecryptThrows(rows)
           THEN /\ crashed' = TRUE
                /\ req' = [req EXCEPT ![r].pc = "hung"]
                /\ response' = NoResponse /\ audit' = {}
                /\ store' = store
           ELSE /\ crashed' = crashed
                /\ Respond(r, "READ_OK", DecryptRows(rows))
                /\ store' = EndSave(store, req[r])
    /\ UNCHANGED <<message_logs, now, nextSid, activeSessions, capture_sessions,
                   captured_data, nextId, nextIv, sweep, tampers, expiredIds,
                   rotatedIds>>

\* POST /logout, endSession: first DELETE
LogoutPurgeData(r) ==
    /\ ~crashed
    /\ response' = NoResponse /\ audit' = {}
    /\ req[r].pc = "handler" /\ req[r].route = "logout"
    /\ captured_data' = PurgeData(captured_data, req[r].session.demoSessionId)
    /\ req' = [req EXCEPT ![r].pc = "purge2"]
    /\ UNCHANGED <<message_logs, now, store, nextSid, activeSessions, capture_sessions,
                   nextId, nextIv, sweep, crashed, tampers, expiredIds,
                   rotatedIds>>

\* endSession: second DELETE, issued in the callback of the first
LogoutPurgeSession(r) ==
    /\ ~crashed
    /\ response' = NoResponse /\ audit' = {}
    /\ req[r].pc = "purge2"
    /\ capture_sessions' =
          PurgeSession(capture_sessions, req[r].session.demoSessionId)
    /\ req' = [req EXCEPT ![r].pc = "purged"]
    /\ UNCHANGED <<message_logs, now, store, nextSid, activeSessions, captured_data,
                   nextId, nextIv, sweep, crashed, tampers, expiredIds,
                   rotatedIds>>

\* endSession resolved {purged: true}: registry entry removed, session
\* destroyed, success reported
LogoutFinish(r) ==
    /\ ~crashed
    /\ req[r].pc = "purged"
    /\ activeSessions' = {e \in activeSessions : e.sessionId # req[r].sessionID}
    /\ store' = StoreDestroy(store, req[r].sessionID)
    /\ RespondLogged(r, "LOGOUT_OK", {}, "LOGOUT")
    /\ UNCHANGED <<message_logs, now, nextSid, capture_sessions, captured_data, nextId,
                   nextIv, sweep, crashed, tampers, expiredIds, rotatedIds>>

\* endSession: one of its two DELETEs fails (err is set); nothing is deleted
\* by the failed statement and the promise is rejected
EndSessionFails(r) ==
    /\ ~crashed
    /\ response' = NoResponse /\ audit' = {}
    /\ req[r].route = "logout" /\ req[r].pc \in {"handler", "purge2"}
    /\ req' = [req EXCEPT ![r].pc = "purgefailed"]
    /\ UNCHANGED <<message_logs, now, store, nextSid, activeSessions,
                   capture_sessions, captured_data, nextId, nextIv, sweep,
                   crashed, tampers, expiredIds, rotatedIds>>

\* a faulty catch block that carries on to the success response
LogoutErrorSwallowed(r) ==
    /\ ~crashed
    /\ req[r].pc = "purgefailed"
    /\ activeSessions' = {e \in activeSessions : e.sessionId # req[r].sessionID}
    /\ store' = StoreDestroy(store, req[r].sessionID)
    /\ RespondLogged(r, "LOGOUT_OK", {}, "LOGOUT")
    /\ UNCHANGED <<message_logs, now, nextSid, capture_sessions,
                   captured_data, nextId, nextIv, sweep, crashed, tampers,
                   expiredIds, rotatedIds>>

\* POST /logout, catch block: the rejected endSession surfaces as a 500; the
\* session is neither unregistered nor destroyed
LogoutError(r) ==
    /\ ~crashed
    /\ req[r].pc = "purgefailed"
    /\ Respond(r, "LOGOUT_ERROR", {})
    /\ store' = EndSave(store, req[r])
    /\ UNCHANGED <<message_logs, now, nextSid, activeSessions,
                   capture_sessions, captured_data, nextId, nextIv, sweep,
                   crashed, tampers, expiredIds, rotatedIds>>

\* POST /messaging/send: getSessionData, then the recipients check.  The
\* decrypt of getSessionData throws as in GET /capture/current.
SendRead(r) ==
    /\ ~crashed
    /\ req[r].pc = "handler" /\ req[r].route = "send"
    /\ LET rows == SelectSessionData(captured_data, capture_sessions,
                                     req[r].session.demoSessionId,
                                     req[r].session.moUser, now)
       IN  IF DecryptThrows(rows)
           THEN /\ crashed' = TRUE
                /\ req' = [req EXCEPT ![r].pc = "hung"]
                /\ response' = NoResponse /\ audit' = {}
                /\ store' = store
           ELSE IF rows = {}
           THEN /\ crashed' = crashed
                /\ Respond(r, "NO_RECIPIENTS", {})
                /\ store' = EndSave(store, req[r])
           ELSE /\ Cardinality(message_logs) + Cardinality(rows) <= MaxLogs
                /\ crashed' = crashed
                /\ req' = [req EXCEPT ![r].pc = "sending",
                                      ![r].recipients = DecryptRows(rows)]
                /\ response' = NoResponse /\ audit' = {}
                /\ store' = store
    /\ UNCHANGED <<message_logs, now, nextSid, activeSessions,
                   capture_sessions, captured_data, nextId, nextIv, sweep,
                   tampers, expiredIds, rotatedIds>>

\* the recipient the for loop of POST /messaging/send is at
NextRecipient(q) ==
    CHOOSE rec \in q.recipients : \A o \in q.recipients : rec.id <= o.id

\* the loop body up to markAsSent: smsService.send queues the delivery (the
\* captured numbers have passed the phone validator), then the UPDATE
SendDeliver(r) ==
    /\ ~crashed
    /\ response' = NoResponse /\ audit' = {}
    /\ req[r].pc = "sending" /\ req[r].recipients # {}
    /\ captured_data' = markAsSent(captured_data, req[r].session.demoSessionId,
                                   NextRecipient(req[r]).phoneNumber, nextIv)
    /\ nextIv' = nextIv + 1
    /\ req' = [req EXCEPT ![r].pc = "marked"]
    /\ UNCHANGED <<message_logs, now, store, nextSid, activeSessions,
                   capture_sessions, nextId, sweep, crashed, tampers,
                   expiredIds, rotatedIds>>

\* the loop body after markAsSent resolved: logMessage(.., 'sent') and the
\* entry of results
SendLog(r) ==
    /\ ~crashed
    /\ response' = NoResponse /\ audit' = {}
    /\ req[r].pc = "marked"
    /\ LET rec == NextRecipient(req[r])
       IN  /\ message_logs' = message_logs \cup
                 {logMessage(Cardinality(message_logs) + 1,
                             req[r].session.demoSessionId,
                             req[r].session.moUser, rec.phoneNumber, nextIv,
                             "sent")}
           /\ req' = [req EXCEPT ![r].pc = "sending",
                                 ![r].recipients = @ \ {rec},
                                 ![r].results = @ \cup {rec}]
    /\ nextIv' = nextIv + 1
    /\ UNCHANGED <<now, store, nextSid, activeSessions, capture_sessions,
                   captured_data, nextId, sweep, crashed, tampers, expiredIds,
                   rotatedIds>>

\* POST /messaging/send after the loop: the summary response
SendFinish(r) ==
    /\ ~crashed
    /\ req[r].pc = "sending" /\ req[r].recipients = {}
    /\ RespondLogged(r, "SEND_OK", req[r].results, "MESSAGES_SENT")
    /\ store' = EndSave(store, req[r])
    /\ UNCHANGED <<message_logs, now, nextSid, activeSessions,
                   capture_sessions, captured_data, nextId, nextIv, sweep,
                   crashed, tampers, expiredIds, rotatedIds>>

\* cleanupExpired, fired by setInterval: first DELETE
SweepFirst ==
    /\ ~crashed
    /\ response' = NoResponse /\ audit' = {}
    /\ sweep = "idle"
    /\ captured_data' = SweepData(captured_data, capture_sessions, now)
    /\ sweep' = "second"
    /\ UNCHANGED <<message_logs, now, store, nextSid, activeSessions, capture_sessions,
                   nextId, nextIv, req, crashed, tampers, expiredIds,
                   rotatedIds>>

\* cleanupExpired: second DELETE, with its own datetime('now')
SweepSecond ==
    /\ ~crashed
    /\ response' = NoResponse /\ audit' = {}
    /\ sweep = "second"
    /\ capture_sessions' = SweepSessions(capture_sessions, now)
    /\ sweep' = "idle"
    /\ UNCHANGED <<message_logs, now, store, nextSid, activeSessions, captured_data,
                   nextId, nextIv, req, crashed, tampers, expiredIds,
                   rotatedIds>>

\* the clock advances
Tick(last) ==
    /\ ~crashed
    /\ response' = NoResponse /\ audit' = {}
    /\ now < last
    /\ now' = now + 1
    /\ UNCHANGED <<message_logs, store, nextSid, activeSessions, capture_sessions,
                   captured_data, nextId, nextIv, req, sweep, crashed, tampers,
                   expiredIds, rotatedIds>>

\* a stored envelope is corrupted at rest: one symbol of the ciphertext or
\* of the tag of one field changes
Corrupt(env, part) ==
    IF part = "ct" THEN [env EXCEPT !.ct = (@ + 1) % GCM_MOD]
    ELSE [env EXCEPT !.tag = (@ + 1) % GCM_MOD]

Tamper(row, field, part) ==
    /\ ~crashed
    /\ response' = NoResponse /\ audit' = {}
    /\ tampers < MaxTamper
    /\ row \in captured_data
    /\ captured_data' = (captured_data \ {row}) \cup
          {IF field = "phone"
           THEN [row EXCEPT !.encrypted_phone = Corrupt(@, part)]
           ELSE [row EXCEPT !.encrypted_safety_code = Corrupt(@, part)]}
    /\ tampers' = tampers + 1
    /\ UNCHANGED <<message_logs, now, store, nextSid, activeSessions, capture_sessions,
                   nextId, nextIv, req, sweep, crashed, expiredIds, rotatedIds>>

\* ------------------------------------------------------- specifications
\* The whole service: every route, the sweep timer, the clock, the disk.
Next ==
    \/ \E r \in Reqs, route \in Routes, cookie \in 0..MaxSid :
          Arrive(r, route, cookie)
    \/ \E r \in Reqs, username \in Usernames, pwOk \in BOOLEAN :
          LoginAuth(r, username, pwOk)
    \/ \E r \in Reqs : LoginCreate(r, MaxSid)
    \/ \E r \in Reqs : LoginFinish(r)
    \/ \E r \in Reqs : requireAuth(r)
    \/ \E r \in Reqs : Regenerated(r, MaxSid)
    \/ \E r \in Reqs : Status(r)
    \/ \E r \in Reqs, phone \in Phones, code \in Codes : Capture(r, phone, code)
    \/ \E r \in Reqs : Current(r)
    \/ \E r \in Reqs : RegenerateFails(r)
    \/ \E r \in Reqs : RotationFailed(r)
    \/ \E r \in Reqs : EndSessionFails(r)
    \/ \E r \in Reqs : LogoutError(r)
    \/ \E r \in Reqs : SendRead(r)
    \/ \E r \in Reqs : SendDeliver(r)
    \/ \E r \in Reqs : SendLog(r)
    \/ \E r \in Reqs : SendFinish(r)
    \/ \E r \in Reqs : LogoutPurgeData(r)
    \/ \E r \in Reqs : LogoutPurgeSession(r)
    \/ \E r \in Reqs : LogoutFinish(r)
    \/ SweepFirst
    \/ SweepSecond
    \/ Tick(DAY)
    \/ \E row \in captured_data, field \in {"phone", "code"}, part \in {"ct", "tag"} :
          Tamper(row, field, part)

Spec == Init /\ [][Next]_vars

\* Concurrent guarded requests of logged-in operators while the clock runs.
GuardSids == 3     \* identifiers generated in this scenario
GuardTicks == 3    \* ticks of the clock in this scenario
NextGuard ==
    \/ \E r \in Reqs, route \in {"login", "status"}, cookie \in 0..MaxSid :
          Arrive(r, route, cookie)
    \/ \E r \in Reqs, username \in Usernames, pwOk \in BOOLEAN :
          LoginAuth(r, username, pwOk)
    \/ \E r \in Reqs : LoginCreate(r, GuardSids)
    \/ \E r \in Reqs : LoginFinish(r)
    \/ \E r \in Reqs : requireAuth(r)
    \/ \E r \in Reqs : Regenerated(r, GuardSids)
    \/ \E r \in Reqs : Status(r)
    \/ Tick(DAY - MaxTicks + GuardTicks)

SpecGuard == Init /\ [][NextGuard]_vars

\* One request at a time against the encrypted store, with the sweep timer
\* and the clock.
StoreSids == 2     \* identifiers generated in the store scenarios
SeqReqs == {1}
NextStore ==
    \/ \E r \in SeqReqs, route \in {"login", "capture", "current"},
          cookie \in 0..MaxSid : Arrive(r, route, cookie)
    \/ \E r \in SeqReqs, username \in Usernames, pwOk \in BOOLEAN :
          LoginAuth(r, username, pwOk)
    \/ \E r \in SeqReqs : LoginCreate(r, StoreSids)
    \/ \E r \in SeqReqs : LoginFinish(r)
    \/ \E r \in SeqReqs : requireAuth(r)
    \/ \E r \in SeqReqs : Regenerated(r, StoreSids)
    \/ \E r \in SeqReqs, phone \in Phones, code \in Codes : Capture(r, phone, code)
    \/ \E r \in SeqReqs : Current(r)
    \/ SweepFirst
    \/ SweepSecond
    \/ Tick(DAY)

SpecStore == Init /\ [][NextStore]_vars

\* One request at a time against a store whose rows may be corrupted at rest.
NextTamper ==
    \/ \E r \in SeqReqs, route \in {"login", "capture", "current"},
          cookie \in 0..MaxSid : Arrive(r, route, cookie)
    \/ \E r \in SeqReqs, username \in Usernames, pwOk \in BOOLEAN :
          LoginAuth(r, username, pwOk)
    \/ \E r \in SeqReqs : LoginCreate(r, StoreSids)
    \/ \E r \in SeqReqs : LoginFinish(r)
    \/ \E r \in SeqReqs : requireAuth(r)
    \/ \E r \in SeqReqs, phone \in Phones, code \in Codes : Capture(r, phone, code)
    \/ \E r \in SeqReqs : Current(r)
    \/ \E row \in captured_data, field \in {"phone", "code"}, part \in {"ct", "tag"} :
          Tamper(row, field, part)

SpecTamper == Init /\ [][NextTamper]_vars

\* Captures and logouts of logged-in operators, handled concurrently.
NextPurge ==
    \/ \E r \in Reqs, route \in {"login", "capture", "logout"},
          cookie \in 0..MaxSid : Arrive(r, route, cookie)
    \/ \E r \in Reqs, username \in Usernames, pwOk \in BOOLEAN :
          LoginAuth(r, username, pwOk)
    \/ \E r \in Reqs : LoginCreate(r, StoreSids)
    \/ \E r \in Reqs : LoginFinish(r)
    \/ \E r \in Reqs : requireAuth(r)
    \/ \E r \in Reqs, phone \in Phones, code \in Codes : Capture(r, phone, code)
    \/ \E r \in Reqs : LogoutPurgeData(r)
    \/ \E r \in Reqs : LogoutPurgeSession(r)
    \/ \E r \in Reqs : LogoutFinish(r)

SpecPurge == Init /\ [][NextPurge]_vars

\* Logins, guarded requests and logouts, one request at a time.
NextAdmission ==
    \/ \E r \in SeqReqs, route \in {"login", "status", "logout"},
          cookie \in 0..MaxSid : Arrive(r, route, cookie)
    \/ \E r \in SeqReqs, username \in Usernames, pwOk \in BOOLEAN :
          LoginAuth(r, username, pwOk)
    \/ \E r \in SeqReqs : LoginCreate(r, MaxSid)
    \/ \E r \in SeqReqs : LoginFinish(r)
    \/ \E r \in SeqReqs : requireAuth(r)
    \/ \E r \in SeqReqs : Status(r)
    \/ \E r \in SeqReqs : LogoutPurgeData(r)
    \/ \E r \in SeqReqs : LogoutPurgeSession(r)
    \/ \E r \in SeqReqs : LogoutFinish(r)

SpecAdmission == Init /\ [][NextAdmission]_vars

\* ------------------------------------------------------------------ claims
\* the step in which request r leaves the guard (requireAuth has run)
GuardStep(r) ==
    /\ req[r].pc = "loaded"
    /\ req[r].route \in GuardedRoutes
    /\ req'[r].pc # "loaded"

\* the guard let request r through (to its handler or into the rotation)
Accepted(r) == req'[r].pc \in {"handler", "regen"}

Authenticated(r) == req[r].session.moUser # ""
Idle(r) == now - req[r].session.lastActivity > MAX_IDLE
RotationDue(r) == now - req[r].session.lastRegenerated > ROTATE_INTERVAL

\* C1: a guarded request of an authenticated session that arrives more than
\* 30 minutes after lastActivity fails with SESSION_EXPIRED, and no guarded
\* request that later presents the expired identifier is accepted.
C1_IdleExpiryTerminal ==
    [][\A r \in Reqs : GuardStep(r) =>
          /\ (Authenticated(r) /\ Idle(r)) =>
                (response'.slot = r /\ response'.code = "SESSION_EXPIRED")
          /\ req[r].late = "expired" => ~Accepted(r)]_vars

\* C2: a guarded request of a non-idle session that arrives more than 15
\* minutes after lastRegenerated goes on under a new identifier with
\* lastRegenerated = now, and no guarded request that later presents the old
\* identifier is accepted.
C2_RotationRetiresOldId ==
    [][\A r \in Reqs :
          /\ (GuardStep(r) /\ Authenticated(r) /\ ~Idle(r) /\ RotationDue(r))
                => req'[r].pc = "regen"
          /\ (req[r].pc = "regen" /\ req[r].route \in GuardedRoutes
                 /\ req'[r].pc = "handler")
                => /\ req'[r].sessionID # req[r].cookie
                   /\ req'[r].session.lastRegenerated = now
          /\ (GuardStep(r) /\ req[r].late = "rotated") => ~Accepted(r)]_vars

\* C3: at most one identifier is valid for one login at any time.
C3_OneIdPerLogin ==
    \A s1, s2 \in SIDs :
        (s1 # s2 /\ store[s1].moUser # "" /\ store[s2].moUser # "")
            => store[s1].demoSessionId # store[s2].demoSessionId

\* C9: when the guard answers SESSION_EXPIRED, the CaptureSession and the
\* CapturedRecords bound to the expired session are gone from the store.
C9_IdleExpiryPurges ==
    [][\A r \in Reqs :
          (response'.slot = r /\ response'.code = "SESSION_EXPIRED") =>
              /\ \A cs \in capture_sessions' :
                    cs.session_id # req[r].session.demoSessionId
              /\ \A row \in captured_data' :
                    row.session_id # req[r].session.demoSessionId]_vars

\* the sessions of identity u that a request can use right now
UsableSessions(st, u) == {s \in SIDs : st[s].moUser = u}

\* C4: an identity never holds more usable sessions than its allowedSessions,
\* and a login attempted while it already holds that many is denied.
C4_SessionsWithinLimit ==
    [][\A u \in MO_USERS :
          /\ Cardinality(UsableSessions(store', u)) <= AllowedSessions(u)
          /\ \A r \in Reqs :
                (req[r].user = u /\ response'.slot = r
                   /\ Cardinality(UsableSessions(store, u)) >= AllowedSessions(u))
                => response'.code # "LOGIN_OK"]_vars

\* what getSessionData(sid, user) yields on the given tables at time t
ReadBack(data, sessions, sid, user, t) ==
    DecryptRows(SelectSessionData(data, sessions, sid, user, t))

\* C5: after a captureData that reported success, getSessionData by the
\* owning identity returns a record with exactly the captured phone and code.
C5_CaptureReadRoundTrip ==
    [][\A r \in Reqs, phone \in Phones, code \in Codes :
          (Capture(r, phone, code) /\ response'.code = "CAPTURE_OK") =>
              \E rec \in ReadBack(captured_data', capture_sessions',
                                  req[r].session.demoSessionId,
                                  req[r].session.moUser, now') :
                  /\ rec.id = nextId
                  /\ rec.phoneNumber = phone
                  /\ rec.safetyCode = code]_vars

\* C6: a read that matches a record with a corrupted ciphertext or tag ends
\* with an error outcome delivered to its caller and returns no record.
C6_CorruptReadRejects ==
    [][\A r \in Reqs :
          (/\ req[r].pc = "handler" /\ req[r].route = "current"
           /\ req'[r].pc # "handler"
           /\ DecryptThrows(SelectSessionData(captured_data, capture_sessions,
                                              req[r].session.demoSessionId,
                                              req[r].session.moUser, now)))
          => /\ response'.slot = r
             /\ response'.code = "READ_FAILED"
             /\ response'.captures = {}]_vars

\* the step in which endSession of request r has resolved {purged: true}
EndSessionResolved(r) == req[r].pc = "purged" /\ req'[r].pc # "purged"

\* C7: when endSession(sessionId) reports success the store holds no
\* CapturedRecord and no CaptureSession with that id, and a getSessionData
\* for that id returns nothing.
C7_EndSessionLeavesNothing ==
    [][\A r \in Reqs : EndSessionResolved(r) =>
          LET sid == req[r].session.demoSessionId
          IN  /\ \A row \in captured_data : row.session_id # sid
              /\ \A cs \in capture_sessions : cs.session_id # sid
              /\ ReadBack(captured_data, capture_sessions, sid,
                          req[r].session.moUser, now) = {}]_vars

\* C8: when logout reports success, the records and the CaptureSession bound
\* to the session are deleted, its registry entry is removed and the session
\* is destroyed.
C8_LogoutPurgesBeforeSuccess ==
    [][\A r \in Reqs :
          (response'.slot = r /\ response'.code = "LOGOUT_OK") =>
              /\ \A row \in captured_data' :
                    row.session_id # req[r].session.demoSessionId
              /\ \A cs \in capture_sessions' :
                    cs.session_id # req[r].session.demoSessionId
              /\ \A e \in activeSessions' : e.sessionId # req[r].sessionID
              /\ StoreGet(store', req[r].sessionID) = NoSession]_vars

\* C10: a completed sweep pass at time now has deleted exactly the
\* CaptureSessions with expiresAt < now and their records, and none with
\* expiresAt >= now.
C10_SweepDeletesExactlyExpired ==
    [][/\ (sweep = "idle" /\ sweep' = "second") =>
            \A row \in captured_data :
                (\E cs \in capture_sessions :
                    cs.session_id = row.session_id
                    /\ Instant(cs.expires_at) >= now)
                => row \in captured_data'
       /\ (sweep = "second" /\ sweep' = "idle") =>
            \A cs \in capture_sessions :
                IF Instant(cs.expires_at) < now
                THEN /\ cs \notin capture_sessions'
                     /\ \A row \in captured_data' :
                           row.session_id # cs.session_id
                ELSE cs \in capture_sessions']_vars

\* the step in which GET /capture/current of request r answers with records
ReadAnswered(r) ==
    /\ req[r].pc = "handler" /\ req[r].route = "current"
    /\ response'.slot = r /\ response'.code = "READ_OK"

\* C11: every record a read returns is stored with status 'new' under a
\* CaptureSession of the caller's identity whose expiresAt is strictly later
\* than the time of the read.
C11_ReadOnlyLiveOwnedNew ==
    [][\A r \in Reqs : ReadAnswered(r) =>
          \A rec \in response'.captures :
              \E row \in captured_data, cs \in capture_sessions :
                  /\ row.id = rec.id
                  /\ row.status = "new"
                  /\ cs.session_id = row.session_id
                  /\ cs.mo_username = req[r].session.moUser
                  /\ Instant(cs.expires_at) > now]_vars

\* Logins, rotations, captures, reads and sends of up to three sessions, one
\* request at a time.
SendSids == 3      \* identifiers generated in this scenario
SendTicks == 2     \* ticks of the clock in this scenario
NextSend ==
    \/ \E r \in SeqReqs, route \in {"login", "capture", "current", "send"},
          cookie \in 0..MaxSid : Arrive(r, route, cookie)
    \/ \E r \in SeqReqs, username \in Usernames, pwOk \in BOOLEAN :
          LoginAuth(r, username, pwOk)
    \/ \E r \in SeqReqs : LoginCreate(r, SendSids)
    \/ \E r \in SeqReqs : LoginFinish(r)
    \/ \E r \in SeqReqs : requireAuth(r)
    \/ \E r \in SeqReqs : Regenerated(r, SendSids)
    \/ \E r \in SeqReqs, phone \in Phones, code \in Codes : Capture(r, phone, code)
    \/ \E r \in SeqReqs : Current(r)
    \/ \E r \in SeqReqs : SendRead(r)
    \/ \E r \in SeqReqs : SendDeliver(r)
    \/ \E r \in SeqReqs : SendLog(r)
    \/ \E r \in SeqReqs : SendFinish(r)
    \/ Tick(DAY - MaxTicks + SendTicks)

SpecSend == Init /\ [][NextSend]_vars

\* the step in which POST /messaging/send of request r answers its summary
SendAnswered(r) ==
    /\ req[r].pc = "sending" /\ req[r].route = "send"
    /\ response'.slot = r /\ response'.code = "SEND_OK"

\* the step in which POST /login of request r answers success
LoginAnswered(r) ==
    /\ req[r].pc = "created"
    /\ response'.slot = r /\ response'.code = "LOGIN_OK"

\* C12: the read and send routes hand a request only records captured under
\* the request's own session, and a new login starts a session that shares
\* its capture binding with no other session and owns no stored record.
C12_SessionIsolation ==
    [][\A r \in Reqs :
          /\ (ReadAnswered(r) \/ SendAnswered(r)) =>
                \A rec \in response'.captures : \A row \in captured_data :
                    row.id = rec.id
                    => row.session_id = req[r].session.demoSessionId
          /\ LoginAnswered(r) =>
                LET mine == store'[req[r].sessionID].demoSessionId
                IN  /\ \A row \in captured_data' : row.session_id # mine
                    /\ \A s \in SIDs \ {req[r].sessionID} :
                          store'[s].demoSessionId # mine]_vars

\* a read came back empty while a record of another session of the same
\* operator is stored and readable by its own session
C12_OtherSessionSeesNothing ==
    /\ response.code = "READ_OK" /\ response.captures = {}
    /\ \E row \in captured_data :
          SelectSessionData(captured_data, capture_sessions, row.session_id,
                            "demo.operator", now) # {}

\* a live CaptureSession: the row exists and its expiresAt is still ahead
LiveCaptureSession(sessions, sid, t) ==
    \E cs \in sessions : cs.session_id = sid /\ Instant(cs.expires_at) > t

\* the step in which POST /capture of request r runs captureData
CaptureStep(r) ==
    /\ req[r].pc = "handler" /\ req[r].route = "capture"
    /\ req'[r].pc # "handler"

\* C13: a captureData issued while no live CaptureSession exists for its
\* session id does not report success and stores no record.
C13_CaptureNeedsLiveSession ==
    [][\A r \in Reqs :
          (/\ CaptureStep(r)
           /\ ~LiveCaptureSession(capture_sessions,
                                  req[r].session.demoSessionId, now))
          => /\ ~(response'.slot = r /\ response'.code = "CAPTURE_OK")
             /\ captured_data' = captured_data]_vars

\* the step in which the send loop of request r runs markAsSent
MarkStep(r) == req[r].pc = "sending" /\ req'[r].pc = "marked"

\* C14: after markAsSent(sessionId, phone) every record of that session whose
\* plaintext phone equals phone has status 'sent', and every other record
\* keeps its status.
C14_MarkAsSentByPlaintext ==
    [][\A r \in Reqs : MarkStep(r) =>
          LET sid == req[r].session.demoSessionId
              phone == NextRecipient(req[r]).phoneNumber
          IN  \A row \in captured_data :
                 \E after \in captured_data' :
                    /\ after.id = row.id
                    /\ after.status =
                          IF /\ row.session_id = sid
                             /\ decrypt(row.encrypted_phone) = phone
                          THEN "sent" ELSE row.status]_vars

\* Captures and logouts against a database whose statements may fail, one
\* request at a time.
NextPurgeFail ==
    \/ \E r \in SeqReqs, route \in {"login", "capture", "logout"},
          cookie \in 0..MaxSid : Arrive(r, route, cookie)
    \/ \E r \in SeqReqs, username \in Usernames, pwOk \in BOOLEAN :
          LoginAuth(r, username, pwOk)
    \/ \E r \in SeqReqs : LoginCreate(r, StoreSids)
    \/ \E r \in SeqReqs : LoginFinish(r)
    \/ \E r \in SeqReqs : requireAuth(r)
    \/ \E r \in SeqReqs, phone \in Phones, code \in Codes : Capture(r, phone, code)
    \/ \E r \in SeqReqs : LogoutPurgeData(r)
    \/ \E r \in SeqReqs : LogoutPurgeSession(r)
    \/ \E r \in SeqReqs : LogoutFinish(r)
    \/ \E r \in SeqReqs : EndSessionFails(r)
    \/ \E r \in SeqReqs : LogoutError(r)

SpecPurgeFail == Init /\ [][NextPurgeFail]_vars

\* C15: a logout whose endSession was rejected answers with an error, and a
\* logout answers success only after both DELETEs of endSession succeeded.
C15_PurgeFailureIsReported ==
    [][\A r \in Reqs :
          /\ (req[r].pc = "purgefailed" /\ req'[r].pc # "purgefailed")
                => (response'.slot = r /\ response'.code = "LOGOUT_ERROR")
          /\ (response'.slot = r /\ response'.code = "LOGOUT_OK")
                => req[r].pc = "purged"]_vars

\* a logout has answered with an error after its purge failed
C15_PurgeFailureAnswered == response.code = "LOGOUT_ERROR"

\* Guarded requests of logged-in operators over a session store whose destroy
\* may fail, one request at a time, while the clock runs.
NextRotateFail ==
    \/ \E r \in SeqReqs, route \in {"login", "status"}, cookie \in 0..MaxSid :
          Arrive(r, route, cookie)
    \/ \E r \in SeqReqs, username \in Usernames, pwOk \in BOOLEAN :
          LoginAuth(r, username, pwOk)
    \/ \E r \in SeqReqs : LoginCreate(r, GuardSids)
    \/ \E r \in SeqReqs : LoginFinish(r)
    \/ \E r \in SeqReqs : requireAuth(r)
    \/ \E r \in SeqReqs : Regenerated(r, GuardSids)
    \/ \E r \in SeqReqs : RegenerateFails(r)
    \/ \E r \in SeqReqs : RotationFailed(r)
    \/ \E r \in SeqReqs : Status(r)
    \/ Tick(DAY - MaxTicks + GuardTicks)

SpecRotateFail == Init /\ [][NextRotateFail]_vars

\* the step in which the guard of request r reports a failed rotation
RotationFailureStep(r) ==
    req[r].pc = "regenfailed" /\ req'[r].pc # "regenfailed"

\* C16: when rotation fails inside the guard the handler is not run and the
\* affected session is destroyed: the store no longer yields a session for
\* the old identifier, so no later request is accepted under it.
C16_RotationFailsClosed ==
    [][\A r \in Reqs : RotationFailureStep(r) =>
          /\ req'[r].pc # "handler"
          /\ StoreGet(store', req[r].cookie) = NoSession]_vars

\* C17: a successful login runs under an identifier different from the one
\* its request carried, saves lastActivity = lastRegenerated = the login
\* time, and no identifier issued before a login is ever valid for the
\* session of that login (identifiers are issued in increasing order).
C17_LoginStartsFreshSession ==
    [][/\ \A r \in Reqs : LoginAnswered(r) =>
             LET sess == StoreGet(store', req[r].sessionID)
             IN  /\ req[r].sessionID \in SIDs
                 /\ req[r].sessionID # req[r].cookie
                 /\ sess.moUser = req[r].user
                 /\ sess.lastActivity = now
                 /\ sess.lastRegenerated = now
                 /\ StoreGet(store', req[r].cookie).demoSessionId
                       # sess.demoSessionId
       /\ \A s \in SIDs :
             store'[s].moUser # "" => store'[s].demoSessionId <= s]_vars

\* a login whose request carried an issued identifier has regenerated: it
\* runs under another identifier and the carried one is gone from the store
C17_LoginLeftOldId ==
    \E r \in Reqs :
        /\ req[r].pc = "created"
        /\ req[r].cookie \in SIDs
        /\ req[r].sessionID # req[r].cookie
        /\ store[req[r].cookie] = NoSession

\* Captures of logged-in operators, one request at a time, while the clock
\* runs past midnight and the sweep timer keeps firing.  Logins stop early
\* enough for every CaptureSession to expire before the clock stops.
NextSweep ==
    \/ \E r \in SeqReqs, route \in {"login", "capture"}, cookie \in 0..MaxSid :
          Arrive(r, route, cookie)
    \/ \E r \in SeqReqs, username \in Usernames, pwOk \in BOOLEAN :
          LoginAuth(r, username, pwOk)
    \/ \E r \in SeqReqs : now + CAPTURE_TTL < DAY /\ LoginCreate(r, StoreSids)
    \/ \E r \in SeqReqs : LoginFinish(r)
    \/ \E r \in SeqReqs : requireAuth(r)
    \/ \E r \in SeqReqs : Regenerated(r, StoreSids)
    \/ \E r \in SeqReqs, phone \in Phones, code \in Codes : Capture(r, phone, code)
    \/ SweepFirst
    \/ SweepSecond
    \/ Tick(DAY)

\* setInterval keeps firing cleanupExpired, its statements complete, and time
\* passes
SpecSweep ==
    /\ Init /\ [][NextSweep]_vars
    /\ WF_vars(SweepFirst) /\ WF_vars(SweepSecond) /\ WF_vars(Tick(DAY))

\* C18: every CapturedRecord ever stored is eventually deleted.
C18_EveryRecordEventuallyDeleted ==
    \A id \in 1..MaxRecs :
        (\E row \in captured_data : row.id = id)
            ~> (\A row \in captured_data : row.id # id)

\* C19: every credential check of a login makes exactly one hash comparison,
\* for an unregistered username as for a registered one.
C19_HashOnEveryValidation ==
    [][\A r \in Reqs, username \in Usernames, pwOk \in BOOLEAN :
          LoginAuth(r, username, pwOk) => Len(HashComparisons(username)) = 1]_vars

\* C20: a login that fails answers the same AUTH_FAILED response whether the
\* username is unregistered or the secret is wrong, and changes no session,
\* CaptureSession or registry entry.
C20_FailedLoginIsUniform ==
    [][\A r \in Reqs, username \in Usernames, pwOk \in BOOLEAN :
          (LoginAuth(r, username, pwOk)
              /\ validateMOCredentials(username, pwOk) = "")
          => /\ response' = [slot |-> r, code |-> "AUTH_FAILED", captures |-> {}]
             /\ store' = store
             /\ capture_sessions' = capture_sessions
             /\ activeSessions' = activeSessions]_vars

\* a login has failed while an authenticated session is in the store
C20_FailedLoginBesideSession ==
    /\ response.code = "AUTH_FAILED"
    /\ \E s \in SIDs : store[s].moUser # ""

\* C21: every step that answers a request with one of the audited outcomes
\* (idle expiry, admission denial, completed logout, successful capture, login
\* success or failure) writes the audit action named for that outcome, and a
\* step in which decryption fails writes INTEGRITY_FAILURE.
C21_OutcomesAreAudited ==
    [][LET named(code) ==
               CASE code = "SESSION_EXPIRED" -> "SESSION_EXPIRED"
                 [] code = "MAX_SESSIONS"    -> "ADMISSION_DENIED"
                 [] code = "LOGOUT_OK"       -> "SESSION_ENDED"
                 [] code = "CAPTURE_OK"      -> "DATA_CAPTURED"
                 [] code = "LOGIN_OK"        -> "LOGIN_SUCCESS"
                 [] code = "AUTH_FAILED"     -> "LOGIN_FAILED"
                 [] OTHER                    -> "REQUEST"
       IN  /\ response'.slot # 0 => named(response'.code) \in audit'
           /\ (crashed' /\ ~crashed) => "INTEGRITY_FAILURE" \in audit']_vars

\* C22: a guarded request that carries no session, or a session without
\* moUser, is answered AUTH_REQUIRED in the guard step itself: its handler is
\* never entered and the session store, the registry, the capture tables and
\* every other request are left as they were.
C22_UnauthenticatedIsRejected ==
    [][\A r \in Reqs : (GuardStep(r) /\ ~Authenticated(r)) =>
          /\ response' = [slot |-> r, code |-> "AUTH_REQUIRED", captures |-> {}]
          /\ req'[r] = FreeSlot
          /\ \A r2 \in Reqs \ {r} : req'[r2] = req[r2]
          /\ UNCHANGED <<store, activeSessions, capture_sessions,
                         captured_data, message_logs>>]_vars

\* an unauthenticated request was turned away while another operator's
\* session and records were in place
C22_RejectedBesideLiveSession ==
    /\ response.code = "AUTH_REQUIRED"
    /\ captured_data # {}
    /\ \E s \in SIDs : store[s] # NoSession

\* One request at a time over the whole lifetime of a CaptureSession: login,
\* guarded requests with refresh and rotation, capture, read and send.
LifeSids == 2      \* identifiers generated in the lifetime scenario
LifeTicks == 3     \* clock ticks in the lifetime scenario
NextLifetime ==
    \/ \E r \in SeqReqs,
          route \in {"login", "status", "capture", "current", "send"},
          cookie \in 0..MaxSid : Arrive(r, route, cookie)
    \/ \E r \in SeqReqs, username \in Usernames, pwOk \in BOOLEAN :
          LoginAuth(r, username, pwOk)
    \/ \E r \in SeqReqs : LoginCreate(r, LifeSids)
    \/ \E r \in SeqReqs : LoginFinish(r)
    \/ \E r \in SeqReqs : requireAuth(r)
    \/ \E r \in SeqReqs : Regenerated(r, LifeSids)
    \/ \E r \in SeqReqs : Status(r)
    \/ \E r \in SeqReqs, phone \in Phones, code \in Codes : Capture(r, phone, code)
    \/ \E r \in SeqReqs : Current(r)
    \/ \E r \in SeqReqs : SendRead(r)
    \/ \E r \in SeqReqs : SendDeliver(r)
    \/ \E r \in SeqReqs : SendLog(r)
    \/ \E r \in SeqReqs : SendFinish(r)
    \/ Tick(DAY - MaxTicks + LifeTicks)

SpecLifetime == Init /\ [][NextLifetime]_vars

\* C23: a CaptureSession row is inserted with expires_at 30 minutes after its
\* creation and no later step changes the row (a step leaves it as it is or
\* deletes it); so once a session has been kept alive for more than 30 minutes
\* after its CaptureSession was created, that CaptureSession's expires_at lies
\* in the past.
C23_ExpiresAtIsFixed ==
    [][/\ \A cs \in capture_sessions' \ capture_sessions :
             /\ Instant(cs.created_at) = now
             /\ Instant(cs.expires_at) = now + CAPTURE_TTL
             /\ \A old \in capture_sessions : old.session_id # cs.session_id
       /\ \A cs \in capture_sessions' :
             /\ Instant(cs.expires_at) = Instant(cs.created_at) + CAPTURE_TTL
             /\ \A s \in SIDs :
                   (/\ store'[s].demoSessionId = cs.session_id
                    /\ now' > Instant(cs.created_at) + CAPTURE_TTL)
                   => Instant(cs.expires_at) < now']_vars

\* a session that was refreshed and rotated is still accepted more than 30
\* minutes after login, with records stored, and its CaptureSession is past
\* its expires_at
C23_ActiveSessionPastExpiry ==
    \E s \in SIDs, cs \in capture_sessions :
        /\ store[s].demoSessionId = cs.session_id
        /\ s # cs.session_id
        /\ store[s].lastActivity = now
        /\ Instant(cs.expires_at) < now
        /\ \E row \in captured_data : row.session_id = cs.session_id

\* ------------------------------------------- the concurrent-session check
\* a faulty check that counts the candidate session among the user's sessions
checkCountingCandidate(registry, username, sessionID, t) ==
    LET userSessions == {s \in registry : s.username = username}
    IN  IF username = ""
        THEN [code |-> "next", registry |-> registry]
        ELSE IF /\ username \in MO_USERS
                /\ Cardinality(userSessions) >= AllowedSessions(username)
        THEN [code |-> "MAX_SESSIONS", registry |-> registry]
        ELSE [code |-> "next",
              registry |-> {s \in registry : s.sessionId # sessionID}
                             \cup {[username |-> username,
                                    sessionId |-> sessionID, startedAt |-> t]}]

\* checkConcurrentSessions: synchronous from the read of the registry to
\* activeSessions.set, which replaces the entry under the same key
checkConcurrentSessions(registry, username, sessionID, t) ==
    LET userSessions == {s \in registry : /\ s.username = username
                                          /\ s.sessionId # sessionID}
    IN  IF username = ""
        THEN [code |-> "next", registry |-> registry]
        ELSE IF /\ username \in MO_USERS
                /\ Cardinality(userSessions) >= AllowedSessions(username)
        THEN [code |-> "MAX_SESSIONS", registry |-> registry]
        ELSE [code |-> "next",
              registry |-> {s \in registry : s.sessionId # sessionID}
                             \cup {[username |-> username,
                                    sessionId |-> sessionID, startedAt |-> t]}]

RegSids == 5       \* session identifiers presented to the check
RegTicks == 2      \* clock ticks while the check is exercised
\* the identity bound to each presented session (req.session.moUser.username)
SessionUser(sid) == IF sid = RegSids THEN "demo.admin" ELSE "demo.operator"

\* a request passes through checkConcurrentSessions; anonymous requests have
\* no req.session.moUser
Admission(sid, anonymous) ==
    /\ ~crashed
    /\ LET out == checkConcurrentSessions(activeSessions,
                     IF anonymous THEN "" ELSE SessionUser(sid), sid, now)
       IN  /\ activeSessions' = out.registry
           /\ IF out.code = "MAX_SESSIONS"
              THEN /\ response' = [slot |-> 1, code |-> "MAX_SESSIONS",
                                   captures |-> {}]
                   /\ audit' = {"REQUEST"}
              ELSE response' = NoResponse /\ audit' = {}
    /\ UNCHANGED <<message_logs, now, store, nextSid, capture_sessions,
                   captured_data, nextId, nextIv, req, sweep, crashed, tampers,
                   expiredIds, rotatedIds>>

\* activeSessions.delete(req.sessionID) of the logout route
RegistryDelete(sid) ==
    /\ ~crashed
    /\ \E e \in activeSessions : e.sessionId = sid
    /\ activeSessions' = {e \in activeSessions : e.sessionId # sid}
    /\ response' = NoResponse /\ audit' = {}
    /\ UNCHANGED <<message_logs, now, store, nextSid, capture_sessions,
                   captured_data, nextId, nextIv, req, sweep, crashed, tampers,
                   expiredIds, rotatedIds>>

\* The check applied to requests of every presented session, in any order.
NextRegistry ==
    \/ \E sid \in 1..RegSids, anonymous \in BOOLEAN : Admission(sid, anonymous)
    \/ \E sid \in 1..RegSids : RegistryDelete(sid)
    \/ Tick(DAY - MaxTicks + RegTicks)

SpecRegistry == Init /\ [][NextRegistry]_vars

\* C24: the check counts the registry entries of the request's identity other
\* than the entry of the request's own session id; it answers MAX_SESSIONS and
\* leaves the registry unchanged exactly when that count has reached
\* allowedSessions, and otherwise registers the session in the same step,
\* leaving every other entry alone; a registered session that is checked again
\* is therefore never counted against itself.
C24_AdmissionCountsOthers ==
    [][\A sid \in 1..RegSids : Admission(sid, FALSE) =>
          LET u == SessionUser(sid)
              others == {e \in activeSessions :
                            e.username = u /\ e.sessionId # sid}
          IN  IF Cardinality(others) >= AllowedSessions(u)
              THEN /\ response'.code = "MAX_SESSIONS"
                   /\ activeSessions' = activeSessions
              ELSE /\ response'.code # "MAX_SESSIONS"
                   /\ \E e \in activeSessions' :
                         e.sessionId = sid /\ e.username = u
                   /\ {e \in activeSessions' : e.sessionId # sid}
                         = {e \in activeSessions : e.sessionId # sid}]_vars

\* a fourth session of demo.operator was denied while three were registered
\* (not all at the same time), beside an admin's entry
C24_DeniedAtTheLimit ==
    /\ response.code = "MAX_SESSIONS"
    /\ Cardinality({e \in activeSessions : e.username = "demo.operator"}) = 3
    /\ \E e \in activeSessions : e.username = "demo.admin"
    /\ \E e1, e2 \in activeSessions :
          e1.username = "demo.operator" /\ e2.username = "demo.operator"
          /\ e1.startedAt < e2.startedAt

\* checkConcurrentSessions run on a request that the guard let through, with
\* the identity and identifier of that request's session
CheckedAdmission(r) ==
    /\ ~crashed
    /\ req[r].pc = "handler"
    /\ LET out == checkConcurrentSessions(activeSessions,
                     req[r].session.moUser, req[r].sessionID, now)
       IN  /\ activeSessions' = out.registry
           /\ IF out.code = "MAX_SESSIONS"
              THEN /\ Respond(r, "MAX_SESSIONS", {})
                   /\ store' = EndSave(store, req[r])
              ELSE /\ req' = req
                   /\ store' = store
                   /\ response' = NoResponse /\ audit' = {}
    /\ UNCHANGED <<message_logs, now, nextSid, capture_sessions, captured_data,
                   nextId, nextIv, sweep, crashed, tampers, expiredIds,
                   rotatedIds>>

\* Logins, guarded requests that pass the concurrent-session check, and
\* logouts, one request at a time.
NextRegistryLife ==
    \/ \E r \in SeqReqs, route \in {"login", "status", "logout"},
          cookie \in 0..MaxSid : Arrive(r, route, cookie)
    \/ \E r \in SeqReqs, username \in Usernames, pwOk \in BOOLEAN :
          LoginAuth(r, username, pwOk)
    \/ \E r \in SeqReqs : LoginCreate(r, LifeSids)
    \/ \E r \in SeqReqs : LoginFinish(r)
    \/ \E r \in SeqReqs : requireAuth(r)
    \/ \E r \in SeqReqs : Regenerated(r, LifeSids)
    \/ \E r \in SeqReqs : CheckedAdmission(r)
    \/ \E r \in SeqReqs : Status(r)
    \/ \E r \in SeqReqs : LogoutPurgeData(r)
    \/ \E r \in SeqReqs : LogoutPurgeSession(r)
    \/ \E r \in SeqReqs : LogoutFinish(r)
    \/ Tick(DAY - MaxTicks + LifeTicks)

SpecRegistryLife == Init /\ [][NextRegistryLife]_vars

C26_NoOrphanRecords ==
    \A row \in captured_data :
        \E cs \in capture_sessions : cs.session_id = row.session_id

\* Requests of one operator session with a read handled beside any of them,
\* the sweep timer and the clock.
ReadRecs == 2      \* rows inserted into captured_data in the read scenario
ReadSids == 2      \* identifiers generated in the read scenario
NextRead ==
    \/ \E route \in {"login", "capture", "current", "logout"},
          cookie \in 0..MaxSid : Arrive(1, route, cookie)
    \/ \E cookie \in 0..MaxSid : Arrive(2, "current", cookie)
    \/ \E r \in Reqs : LoginAuth(r, "demo.operator", TRUE)
    \/ \E r \in Reqs : LoginCreate(r, 1)
    \/ \E r \in Reqs : LoginFinish(r)
    \/ \E r \in Reqs : requireAuth(r)
    \/ \E r \in Reqs : Regenerated(r, ReadSids)
    \/ \E r \in Reqs, phone \in Phones : CaptureUpTo(r, phone, 3, ReadRecs)
    \/ \E r \in Reqs : Current(r)
    \/ \E r \in Reqs : LogoutPurgeData(r)
    \/ \E r \in Reqs : LogoutPurgeSession(r)
    \/ \E r \in Reqs : LogoutFinish(r)
    \/ SweepFirst
    \/ SweepSecond
    \/ Tick(DAY)

SpecRead == Init /\ [][NextRead]_vars

\* C27: no step deletes some but not all of a session's records, and a read
\* that is answered returns either all the stored 'new' records of its session
\* or none; so a read that runs between the statements of a sweep or of a
\* logout's purge never returns a non-empty strict subset.
C27_ReadSeesAllOrNone ==
    [][/\ \A sid \in SIDs :
             LET held == {row \in captured_data : row.session_id = sid}
                 deleted == {row \in held :
                                \A x \in captured_data' : x.id # row.id}
             IN  deleted = {} \/ deleted = held
       /\ \A r \in Reqs : ReadAnswered(r) =>
             LET new == {row \in captured_data :
                            /\ row.session_id = req[r].session.demoSessionId
                            /\ row.status = "new"}
             IN  \/ response'.captures = {}
                 \/ {c.id : c \in response'.captures} = {row.id : row \in new}]_vars

\* a read of a session with two captured records was answered with none of
\* them while the logout of that session was between its two DELETEs
C27_ReadDuringPurge ==
    /\ response.code = "READ_OK" /\ response.captures = {}
    /\ nextId > ReadRecs
    /\ \E r \in Reqs :
          /\ req[r].pc = "purge2"
          /\ \A cs \in capture_sessions :
                cs.session_id = req[r].session.demoSessionId

\* C28: a capture that passed the guard and runs its insert after a logout of
\* the same session has purged the store and destroyed the session stores
\* nothing and is not answered as a success; after a successful logout no
\* record is stored under that session id.
C28_CaptureAfterLogoutFails ==
    [][\A r \in Reqs :
          (/\ CaptureStep(r)
           /\ StoreGet(store, req[r].cookie) = NoSession
           /\ \A cs \in capture_sessions :
                 cs.session_id # req[r].session.demoSessionId)
          => /\ captured_data' = captured_data
             /\ response'.code # "CAPTURE_OK"]_vars

\* the step in which the rotation of request r's session completes
RotationStep(r) ==
    /\ req[r].pc = "regen" /\ req[r].route \in GuardedRoutes
    /\ req'[r].pc = "handler"

C30_RefreshKeepsSessionAlive ==
    [][\A r \in Reqs : GuardStep(r) =>
          /\ (Authenticated(r) /\ ~Idle(r) /\ ~RotationDue(r)) =>
                /\ req'[r].pc = "handler"
                /\ req'[r].sessionID = req[r].sessionID
                /\ req'[r].session =
                      [req[r].session EXCEPT !.lastActivity = now]
                /\ UNCHANGED <<store, activeSessions, capture_sessions,
                               captured_data>>
          /\ (response'.slot = r /\ response'.code = "SESSION_EXPIRED") =>
                \A r2 \in Reqs \ {r} :
                    ~(/\ req[r2].pc = "handler"
                      /\ req[r2].sessionID = req[r].sessionID
                      /\ now - req[r2].session.lastActivity <= MAX_IDLE)]_vars

\* C31: a record that the send route has delivered and logged as sent is not
\* included again by a later read or send of the same session (a record being
\* told from others of its session by its phone number, when no other stored
\* record of the session carries that number).
C31_DeliveredAtMostOnce ==
    [][\A r \in Reqs :
          LET sid == req[r].session.demoSessionId
              delivered(rec) ==
                  /\ \E log \in message_logs :
                        /\ log.session_id = sid
                        /\ log.status = "sent"
                        /\ decrypt(log.encrypted_phone) = rec.phoneNumber
                  /\ \A row \in captured_data :
                        (/\ row.session_id = sid
                         /\ decrypt(row.encrypted_phone) = rec.phoneNumber)
                        => row.id = rec.id
          IN  /\ ReadAnswered(r) =>
                    \A rec \in response'.captures : ~delivered(rec)
              /\ (/\ req[r].pc = "handler" /\ req[r].route = "send"
                  /\ req'[r].pc = "sending") =>
                    \A rec \in req'[r].recipients : ~delivered(rec)]_vars

\* C32: for every stored CaptureSession and every current time, the text
\* comparisons of the store (expires_at < datetime('now') in cleanupExpired,
\* expires_at > datetime('now') in getSessionData) agree with the
\* chronological comparison of the two instants.
C32_TextComparisonIsChronological ==
    \A cs \in capture_sessions :
        /\ TextLess(cs.expires_at, SqlNow(now)) <=> Instant(cs.expires_at) < now
        /\ TextLess(SqlNow(now), cs.expires_at) <=> Instant(cs.expires_at) > now

\* ------------------------------------------------ failures during a login
\* POST /login with valid credentials whose req.session.regenerate fails: the
\* store could not destroy the old row, which therefore stays; regenerate
\* still leaves a blank session on the request
LoginRegenerateFails(r, username, pwOk) ==
    /\ ~crashed
    /\ response' = NoResponse /\ audit' = {}
    /\ req[r].pc = "loaded" /\ req[r].route = "login"
    /\ validateMOCredentials(username, pwOk) # ""
    /\ req' = [req EXCEPT ![r].pc = "loginregenfailed", ![r].sessionID = 0,
                          ![r].session = NoSession]
    /\ UNCHANGED <<message_logs, now, store, nextSid, activeSessions,
                   capture_sessions, captured_data, nextId, nextIv, sweep,
                   crashed, tampers, expiredIds, rotatedIds>>

\* the regenerate callback of POST /login with err: 500 'Session creation
\* failed'; the blank session is not saved
LoginRegenerateFailed(r) ==
    /\ ~crashed
    /\ req[r].pc = "loginregenfailed"
    /\ Respond(r, "SESSION_CREATE_FAILED", {})
    /\ UNCHANGED <<message_logs, now, store, nextSid, activeSessions,
                   capture_sessions, captured_data, nextId, nextIv, sweep,
                   crashed, tampers, expiredIds, rotatedIds>>

\* the regenerate callback of POST /login whose createSession is rejected
\* (the INSERT failed): the await throws inside the async callback, outside
\* the handler's try, so the rejection is unhandled; depending on the runtime
\* the process goes on or exits, and the request is never answered
CreateSessionFails(r, maxSid, exits) ==
    /\ ~crashed
    /\ response' = NoResponse /\ audit' = {}
    /\ req[r].pc = "regen" /\ req[r].route = "login"
    /\ nextSid <= maxSid
    /\ req' = [req EXCEPT ![r].pc = "hung", ![r].sessionID = nextSid,
                          ![r].session = NoSession]
    /\ nextSid' = nextSid + 1
    /\ crashed' = exits
    /\ UNCHANGED <<message_logs, now, store, activeSessions, capture_sessions,
                   captured_data, nextId, nextIv, sweep, tampers, expiredIds,
                   rotatedIds>>

\* Logins against a session store and a database that may fail, beside
\* guarded requests, two requests at a time.
NextLoginFail ==
    \/ \E r \in Reqs, route \in {"login", "status"}, cookie \in 0..MaxSid :
          Arrive(r, route, cookie)
    \/ \E r \in Reqs, username \in Usernames, pwOk \in BOOLEAN :
          LoginAuth(r, username, pwOk)
    \/ \E r \in Reqs, username \in Usernames, pwOk \in BOOLEAN :
          LoginRegenerateFails(r, username, pwOk)
    \/ \E r \in Reqs : LoginRegenerateFailed(r)
    \/ \E r \in Reqs : LoginCreate(r, StoreSids)
    \/ \E r \in Reqs, exits \in BOOLEAN : CreateSessionFails(r, StoreSids, exits)
    \/ \E r \in Reqs : LoginFinish(r)
    \/ \E r \in Reqs : requireAuth(r)
    \/ \E r \in Reqs : Status(r)

SpecLoginFail == Init /\ [][NextLoginFail]_vars

\* C33: a login attempt that ends without success (invalid credentials, or
\* regenerate failed) has added no capture_sessions row, no registry entry and
\* no session with claims to the store in any of its steps; and no login
\* attempt, including one whose createSession is rejected, is left unanswered
\* with no step remaining that would answer it.
C33_FailedLoginLeavesNothing ==
    [][\A r \in Reqs :
          /\ (/\ req[r].route = "login"
              /\ req[r].pc \in {"loaded", "loginregenfailed"}
              /\ req'[r].pc \in {"free", "loginregenfailed"}
              /\ req'[r].pc # req[r].pc) =>
                /\ capture_sessions' = capture_sessions
                /\ activeSessions' = activeSessions
                /\ \A s \in SIDs :
                      store'[s] # NoSession => store'[s] = store[s]
          /\ req'[r].route = "login" => req'[r].pc # "hung"]_vars

\* C34: at the step in which the guard idle-expires a session, the
\* CaptureSession bound to it is past its expires_at, and the SELECT of
\* getSessionData for that CaptureSession yields no record.
C34_IdleExpiredSessionReadsNothing ==
    [][\A r \in Reqs :
          (/\ GuardStep(r)
           /\ response'.slot = r /\ response'.code = "SESSION_EXPIRED") =>
             LET sid == req[r].session.demoSessionId
             IN  /\ \A cs \in capture_sessions' :
                       cs.session_id = sid => Instant(cs.expires_at) < now
                 /\ SelectSessionData(captured_data', capture_sessions', sid,
                                      req[r].session.moUser, now) = {}]_vars

====
